---- MODULE Spec2Model ----
\* A model of modules/default/calendar/calendarfetcher.js: one CalendarFetcher
\* instance, the transport that completes its requests, the timer queue of the
\* event loop and the wall clock.
EXTENDS Integers, Sequences, FiniteSets, TLC

\* ------------------------------------------------------------------ bounds

\* How many times the owner calls startFetch().
MaxStarts == 2
\* The largest configured maximumEntries.
MaxEntries == 2
\* The longest run of consecutive failed attempts that is counted.
MaxStreak == 5

\* --------------------------------------------------------- program constants

\* reloadTimer = null
Null == 0
\* response.statusCode != 200
StatusOK == 200
\* scheduleTimer(10000)
RetryDelay == 10000
\* if(failedRetrievals < 3)
MaxFailedRetrievals == 3
\* toJSDate(): seconds of an ICAL.Time to the milliseconds of a Date
MsPerSecond == 1000
\* moment().add(n, "days"): a day in milliseconds (the local zone is UTC)
MsPerDay == 86400000

\* ------------------------------------------------------------------- inputs

\* The instants moment() can return while the model runs (milliseconds).
NowSet == {90000000, 90000500}
\* The configured reloadInterval (milliseconds).
ReloadIntervals == {300000}
\* The configured maximumNumberOfDays.
DayLimits == {0, 1}
\* The configured excludedEvents lists.
ExcludedSets == {{"b"}}
\* The listeners a caller registers; "noop" is the function() {} of construction.
ReceiveListeners == {"noop", "L1"}
ErrorListeners == {"E1"}

\* VEVENT components as the parser returns them: summary, start and end as
\* ICAL.Time (seconds). p: over before every now; e: ends at the first now;
\* a, b: equal starts inside the window; f: starts at the last second of the
\* horizon of one day; g: starts at the midnight that ends that horizon.
vp == [summary |-> "p", startDate |-> 80000,  endDate |-> 89999]
ve == [summary |-> "e", startDate |-> 80000,  endDate |-> 90000]
va == [summary |-> "a", startDate |-> 100000, endDate |-> 103600]
vb == [summary |-> "b", startDate |-> 100000, endDate |-> 103600]
vf == [summary |-> "f", startDate |-> 172799, endDate |-> 176399]
vg == [summary |-> "g", startDate |-> 172800, endDate |-> 176400]

\* What ical.parse + getAllSubcomponents('vevent') yield for a parsable body.
Feeds ==
    { <<>>, <<vp>>, <<ve>>, <<vb>>,
      <<va, vb>>, <<vb, va>>, <<vf, va>>, <<vg, ve>>,
      <<vf, vb, va>>, <<vg, va, vp>> }

\* The (err, response, body) triples request.get hands to its callback. A body
\* is "null", "garbage" (ical.parse throws on it) or "ical" with its VEVENTs.
StatusCodes == {200, 503}
Bodies ==
    {[tag |-> "null", vevents |-> <<>>], [tag |-> "garbage", vevents |-> <<>>]}
    \cup {[tag |-> "ical", vevents |-> f] : f \in Feeds}
Responses ==
    {[response |-> FALSE, statusCode |-> 0, body |-> [tag |-> "null", vevents |-> <<>>]]}
    \cup {[response |-> TRUE, statusCode |-> c, body |-> b] :
            c \in StatusCodes \ {StatusOK}, b \in {[tag |-> "garbage", vevents |-> <<>>]}}
    \cup {[response |-> TRUE, statusCode |-> StatusOK, body |-> b] : b \in Bodies}

\* -------------------------------------------------------------------- state

VARIABLES
    cfg,                    \* the constructor's parameters
    reloadTimer,            \* handle of the timer armed last, or Null
    events,                 \* the held event list
    failedRetrievals,
    fetchFailedCallback,
    eventsReceivedCallback,
    timers,                 \* the event loop's pending timeouts: [id, delay]
    requests,               \* HTTP requests issued and not yet completed
    starts,                 \* calls of startFetch() so far
    clock,                  \* what moment() returns now
    last,                   \* the step taken last and what it did
    streak,                 \* consecutive non-200 responses since failedRetrievals was 0
    shortRun,               \* timers armed for RetryDelay in a row, up to now
    lastRegistered          \* the argument of the latest onReceive() call

vars == <<cfg, reloadTimer, events, failedRetrievals, fetchFailedCallback,
          eventsReceivedCallback, timers, requests, starts, clock, last, streak,
          shortRun, lastRegistered>>

TimerIds == 1..(MaxStarts + 2)

\* The value of last after a step that is not a completion callback. After a
\* callback, run is the streak that callback found.
Idle == [out |-> "none", threw |-> FALSE, parsed |-> <<>>, notified |-> <<>>,
         errored |-> <<>>, run |-> 0]

\* ------------------------------------------------------ time and the filter

Min(a, b) == IF a <= b THEN a ELSE b

\* ICAL.Time.toJSDate() wrapped by moment(): the instant in milliseconds.
toJSDate(t) == t * MsPerSecond

\* moment().startOf("day")
startOfDay(now) == now - (now % MsPerDay)

\* The end of the window without the second taken off.
future_noSubtract(now, maximumNumberOfDays) ==
    startOfDay(now) + maximumNumberOfDays * MsPerDay

\* moment().startOf("day").add(maximumNumberOfDays, "days").subtract(1, "seconds")
future(now, maximumNumberOfDays) ==
    startOfDay(now) + maximumNumberOfDays * MsPerDay - 1 * MsPerSecond

\* The body of the loop of filterEvents: TRUE when the vevent is pushed.
isGoodEvent(vevent, now, maximumNumberOfDays) ==
    LET startDate == toJSDate(vevent.startDate)
        endDate   == toJSDate(vevent.endDate)
    IN  /\ ~(endDate < now)
        /\ ~(startDate > future(now, maximumNumberOfDays))

RECURSIVE filterEvents(_, _, _)
filterEvents(vevents, now, maximumNumberOfDays) ==
    IF vevents = <<>> THEN <<>>
    ELSE LET rest == filterEvents(Tail(vevents), now, maximumNumberOfDays)
         IN  IF isGoodEvent(Head(vevents), now, maximumNumberOfDays)
             THEN <<Head(vevents)>> \o rest
             ELSE rest

\* function(a, b) { return a.startDate - b.startDate; }
compareStart(a, b) == a.startDate - b.startDate

\* Array.prototype.sort with that comparator (a stable insertion sort): x goes
\* behind every element it does not precede.
RECURSIVE insertSorted(_, _)
insertSorted(sorted, x) ==
    IF sorted = <<>> THEN <<x>>
    ELSE IF compareStart(x, Head(sorted)) < 0 THEN <<x>> \o sorted
    ELSE <<Head(sorted)>> \o insertSorted(Tail(sorted), x)

RECURSIVE sort(_)
sort(s) ==
    IF s = <<>> THEN <<>>
    ELSE insertSorted(sort(SubSeq(s, 1, Len(s) - 1)), s[Len(s)])

\* The slice keeping one element too many, slice(0, maximumEntries + 1).
slice_oneTooMany(s, maximumEntries) == SubSeq(s, 1, Min(Len(s), maximumEntries + 1))

\* filteredEvents.slice(0, maximumEntries)
slice(s, maximumEntries) == SubSeq(s, 1, Min(Len(s), maximumEntries))

\* The record pushed onto events for one filtered event; format("x") prints the
\* instant as its millisecond count.
toEventRecord(event) ==
    [title     |-> event.summary,
     startDate |-> toJSDate(event.startDate),
     endDate   |-> toJSDate(event.endDate)]

translate(filteredEvents) ==
    [i \in 1..Len(filteredEvents) |-> toEventRecord(filteredEvents[i])]

\* ------------------------------------------------------------------- timers

clearTimeout(queue, handle) == {t \in queue : t.id # handle}

newTimerId(queue, handle) ==
    CHOOSE i \in TimerIds :
        /\ i \notin {t.id : t \in queue} \cup {handle}
        /\ \A j \in TimerIds :
              j \notin {t.id : t \in queue} \cup {handle} => i <= j

\* scheduleTimer without its clearTimeout(reloadTimer).
scheduleTimer_noClear(queue, handle, interval) ==
    LET id == newTimerId(queue, handle)
    IN  [timers |-> queue \cup {[id |-> id, delay |-> interval]},
         reloadTimer |-> id]

\* scheduleTimer(interval): the timer queue and the handle it leaves.
scheduleTimer(queue, handle, interval) ==
    LET cleared == clearTimeout(queue, handle)
        id      == newTimerId(cleared, handle)
    IN  [timers |-> cleared \cup {[id |-> id, delay |-> interval]},
         reloadTimer |-> id]

\* ---------------------------------------------------------- the fetch cycle

\* fetchCalendar(), entered with `queue` pending in the event loop.
fetchCalendar(queue) ==
    /\ timers' = clearTimeout(queue, reloadTimer)
    /\ reloadTimer' = Null
    /\ requests' = requests + 1

\* The policy with the reset taken one failure early.
failurePolicy_resetOnThird(fr, reloadInterval) ==
    IF fr < MaxFailedRetrievals - 1
    THEN [failedRetrievals |-> fr + 1, interval |-> RetryDelay]
    ELSE [failedRetrievals |-> 0, interval |-> reloadInterval]

\* The policy of the status branch, lines 71 to 77: the counter it leaves and
\* the interval it arms.
failurePolicy(fr, reloadInterval) ==
    IF fr < MaxFailedRetrievals
    THEN [failedRetrievals |-> fr + 1, interval |-> RetryDelay]
    ELSE [failedRetrievals |-> 0, interval |-> reloadInterval]

\* retrieveCallback left by an exception: what it had assigned so far stays.
thrown(out, fr) ==
    [out |-> out, threw |-> TRUE, failedRetrievals |-> fr, events |-> events,
     timers |-> timers, reloadTimer |-> reloadTimer, issued |-> 0,
     notified |-> <<>>, errored |-> <<>>, parsed |-> <<>>]

\* The status branch calling the error-listener once the counter is at its limit.
failureBranch_reportsError ==
    LET p == failurePolicy(failedRetrievals, cfg.reloadInterval)
        t == scheduleTimer(timers, reloadTimer, p.interval)
    IN  [out |-> "status", threw |-> FALSE,
         failedRetrievals |-> p.failedRetrievals, events |-> events,
         timers |-> t.timers, reloadTimer |-> t.reloadTimer, issued |-> 0,
         notified |-> <<>>,
         errored |-> IF failedRetrievals < MaxFailedRetrievals THEN <<>>
                     ELSE <<fetchFailedCallback>>,
         parsed |-> <<>>]

\* The status branch retrying at once, fetchCalendar() before scheduleTimer().
failureBranch_retriesAtOnce ==
    LET p == failurePolicy(failedRetrievals, cfg.reloadInterval)
        t == scheduleTimer(clearTimeout(timers, reloadTimer), Null, p.interval)
    IN  [out |-> "status", threw |-> FALSE,
         failedRetrievals |-> p.failedRetrievals, events |-> events,
         timers |-> t.timers, reloadTimer |-> t.reloadTimer, issued |-> 1,
         notified |-> <<>>, errored |-> <<>>, parsed |-> <<>>]

\* The status branch dropping the held list.
failureBranch_clearsEvents ==
    LET p == failurePolicy(failedRetrievals, cfg.reloadInterval)
        t == scheduleTimer(timers, reloadTimer, p.interval)
    IN  [out |-> "status", threw |-> FALSE,
         failedRetrievals |-> p.failedRetrievals, events |-> <<>>,
         timers |-> t.timers, reloadTimer |-> t.reloadTimer, issued |-> 0,
         notified |-> <<>>, errored |-> <<>>, parsed |-> <<>>]

\* retrieveCallback for a response whose status is not 200: the values it
\* leaves behind. issued counts the requests the callback itself sends.
failureBranch ==
    LET p == failurePolicy(failedRetrievals, cfg.reloadInterval)
        t == scheduleTimer(timers, reloadTimer, p.interval)
    IN  [out |-> "status", threw |-> FALSE,
         failedRetrievals |-> p.failedRetrievals, events |-> events,
         timers |-> t.timers, reloadTimer |-> t.reloadTimer, issued |-> 0,
         notified |-> <<>>, errored |-> <<>>, parsed |-> <<>>]

\* The success branch testing filteredEvents.length instead of allEvents.length.
successBranch_testsFiltered(allEvents) ==
    LET filteredEvents ==
            slice(sort(filterEvents(allEvents, clock, cfg.maximumNumberOfDays)),
                  cfg.maximumEntries)
        t == scheduleTimer(timers, reloadTimer, cfg.reloadInterval)
    IN  [out |-> "ok", threw |-> FALSE, failedRetrievals |-> 0,
         events |-> IF Len(filteredEvents) > 0 THEN translate(filteredEvents)
                    ELSE events,
         timers |-> t.timers, reloadTimer |-> t.reloadTimer, issued |-> 0,
         notified |-> IF Len(filteredEvents) > 0 THEN <<eventsReceivedCallback>>
                      ELSE <<>>,
         errored |-> <<>>, parsed |-> allEvents]

\* The success branch without the reset of line 82.
successBranch_keepsCounter(allEvents) ==
    LET filteredEvents ==
            slice(sort(filterEvents(allEvents, clock, cfg.maximumNumberOfDays)),
                  cfg.maximumEntries)
        t == scheduleTimer(timers, reloadTimer, cfg.reloadInterval)
    IN  [out |-> "ok", threw |-> FALSE, failedRetrievals |-> failedRetrievals,
         events |-> IF Len(allEvents) > 0 THEN translate(filteredEvents)
                    ELSE events,
         timers |-> t.timers, reloadTimer |-> t.reloadTimer, issued |-> 0,
         notified |-> IF Len(allEvents) > 0 THEN <<eventsReceivedCallback>>
                      ELSE <<>>,
         errored |-> <<>>, parsed |-> allEvents]

\* The success branch cutting to maximumEntries before it sorts.
successBranch_slicesBeforeSort(allEvents) ==
    LET filteredEvents ==
            sort(slice(filterEvents(allEvents, clock, cfg.maximumNumberOfDays),
                       cfg.maximumEntries))
        t == scheduleTimer(timers, reloadTimer, cfg.reloadInterval)
    IN  [out |-> "ok", threw |-> FALSE, failedRetrievals |-> 0,
         events |-> IF Len(allEvents) > 0 THEN translate(filteredEvents)
                    ELSE events,
         timers |-> t.timers, reloadTimer |-> t.reloadTimer, issued |-> 0,
         notified |-> IF Len(allEvents) > 0 THEN <<eventsReceivedCallback>>
                      ELSE <<>>,
         errored |-> <<>>, parsed |-> allEvents]

\* retrieveCallback for a status of 200 and a body the parser accepts.
successBranch(allEvents) ==
    LET filteredEvents ==
            slice(sort(filterEvents(allEvents, clock, cfg.maximumNumberOfDays)),
                  cfg.maximumEntries)
        t == scheduleTimer(timers, reloadTimer, cfg.reloadInterval)
    IN  [out |-> "ok", threw |-> FALSE, failedRetrievals |-> 0,
         events |-> IF Len(allEvents) > 0 THEN translate(filteredEvents)
                    ELSE events,
         timers |-> t.timers, reloadTimer |-> t.reloadTimer, issued |-> 0,
         notified |-> IF Len(allEvents) > 0 THEN <<eventsReceivedCallback>>
                      ELSE <<>>,
         errored |-> <<>>, parsed |-> allEvents]

\* retrieveCallback(err, response, body).
retrieveCallback(resp) ==
    IF ~resp.response
    THEN \* response.statusCode of an undefined response: TypeError in the log line
         thrown("error", failedRetrievals)
    ELSE IF resp.statusCode # StatusOK
    THEN failureBranch
    ELSE IF resp.body.tag = "null"
    THEN \* parseCalendar returns undefined; allEvents.length throws
         thrown("nullbody", 0)
    ELSE IF resp.body.tag = "garbage"
    THEN \* ical.parse throws and nothing catches it
         thrown("parseerror", 0)
    ELSE successBranch(resp.body.vevents)

\* The run of consecutive non-200 responses handled since failedRetrievals was
\* last 0; -1 once an attempt of another kind has interrupted such a run.
nextStreak(out) ==
    IF out = "status"
    THEN IF failedRetrievals = 0 THEN 1
         ELSE IF streak = -1 THEN -1
         ELSE Min(streak + 1, MaxStreak)
    ELSE IF out = "ok" THEN 0
    ELSE -1

\* The timers armed for RetryDelay in a row once the callback has left r: one
\* more when it armed RetryDelay, none when it armed another interval, as many
\* as before when it armed nothing.
nextShortRun(r) ==
    IF r.threw THEN shortRun
    ELSE LET armed == CHOOSE t \in r.timers : t.id = r.reloadTimer
         IN  IF armed.delay = RetryDelay THEN Min(shortRun + 1, MaxStreak)
             ELSE 0

\* ------------------------------------------------------------------ actions

Init ==
    /\ cfg \in [reloadInterval : ReloadIntervals,
                excludedEvents : ExcludedSets,
                maximumEntries : 0..MaxEntries,
                maximumNumberOfDays : DayLimits]
    /\ reloadTimer = Null
    /\ events = <<>>
    /\ failedRetrievals = 0
    /\ fetchFailedCallback = "noop"
    /\ eventsReceivedCallback = "noop"
    /\ timers = {}
    /\ requests = 0
    /\ starts = 0
    /\ clock \in NowSet
    /\ last = Idle
    /\ streak = 0
    /\ shortRun = 0
    /\ lastRegistered = "noop"

\* this.startFetch()
startFetch ==
    /\ starts < MaxStarts
    /\ starts' = starts + 1
    /\ fetchCalendar(timers)
    /\ last' = Idle
    /\ UNCHANGED <<cfg, events, failedRetrievals, fetchFailedCallback,
                   eventsReceivedCallback, clock, streak, shortRun, lastRegistered>>

\* A pending timeout expires: the event loop drops it and runs its function,
\* function() { fetchCalendar(); }.
TimerFires ==
    \E t \in timers :
        /\ fetchCalendar(timers \ {t})
        /\ last' = Idle
        /\ UNCHANGED <<cfg, events, failedRetrievals, fetchFailedCallback,
                       eventsReceivedCallback, starts, clock, streak, shortRun,
                       lastRegistered>>

\* The transport completes one request and calls retrieveCallback.
Complete ==
    \E resp \in Responses :
        /\ requests > 0
        /\ \E r \in {retrieveCallback(resp)} :
               /\ requests' = requests - 1 + r.issued
               /\ failedRetrievals' = r.failedRetrievals
               /\ events' = r.events
               /\ timers' = r.timers
               /\ reloadTimer' = r.reloadTimer
               /\ last' = [out |-> r.out, threw |-> r.threw,
                   parsed |-> r.parsed, notified |-> r.notified,
                   errored |-> r.errored, run |-> streak]
               /\ streak' = nextStreak(r.out)
               /\ shortRun' = nextShortRun(r)
        /\ UNCHANGED <<cfg, fetchFailedCallback, eventsReceivedCallback, starts, clock,
                       lastRegistered>>

\* onReceive keeping the first listener registered over the default one.
onReceive_firstWins ==
    \E callback \in ReceiveListeners :
        /\ eventsReceivedCallback' =
               IF eventsReceivedCallback = "noop" THEN callback
               ELSE eventsReceivedCallback
        /\ lastRegistered' = callback
        /\ last' = Idle
        /\ UNCHANGED <<cfg, reloadTimer, events, failedRetrievals, fetchFailedCallback,
                       timers, requests, starts, clock, streak, shortRun>>

\* this.onReceive(callback)
onReceive ==
    \E callback \in ReceiveListeners :
        /\ eventsReceivedCallback' = callback
        /\ lastRegistered' = callback
        /\ last' = Idle
        /\ UNCHANGED <<cfg, reloadTimer, events, failedRetrievals, fetchFailedCallback,
                       timers, requests, starts, clock, streak, shortRun>>

\* this.onError(callback)
onError ==
    \E callback \in ErrorListeners :
        /\ fetchFailedCallback' = callback
        /\ last' = Idle
        /\ UNCHANGED <<cfg, reloadTimer, events, failedRetrievals, eventsReceivedCallback,
                       timers, requests, starts, clock, streak, shortRun, lastRegistered>>

\* Time passes.
Tick ==
    \E now \in NowSet :
        /\ now > clock
        /\ clock' = now
        /\ last' = Idle
        /\ UNCHANGED <<cfg, reloadTimer, events, failedRetrievals, fetchFailedCallback,
                       eventsReceivedCallback, timers, requests, starts, streak,
                       shortRun, lastRegistered>>

Next == startFetch \/ TimerFires \/ Complete \/ onReceive \/ onError \/ Tick

Spec == Init /\ [][Next]_vars

\* The event loop runs every expired timeout, and request.get calls back for
\* every request it was given.
LiveSpec == Spec /\ WF_vars(TimerFires) /\ WF_vars(Complete)

\* ------------------------------------------------------------------- claims

\* The one pending timer is the one reloadTimer names, armed for `interval`.
ArmedFor(interval) == timers = {[id |-> reloadTimer, delay |-> interval]}

\* What the cycle that has just completed makes of the feed it parsed.
FilteredOfLast ==
    slice(sort(filterEvents(last.parsed, clock, cfg.maximumNumberOfDays)),
          cfg.maximumEntries)

\* C1 (as stated): counting from failedRetrievals = 0, once the third
\* consecutive failed attempt has been handled failedRetrievals is 0 and the
\* next attempt is armed for reloadInterval.
C1_ResetAfterThreeFailures ==
    (last.out = "status" /\ streak = 3) =>
        (failedRetrievals = 0 /\ ArmedFor(cfg.reloadInterval))

\* C1 (amended): counting from failedRetrievals = 0, each of the first three
\* consecutive non-200 responses leaves failedRetrievals at their number and
\* arms the 10 s retry; the fourth leaves failedRetrievals at 0 and arms
\* reloadInterval.
C1_ResetAfterFourFailures ==
    /\ (last.out = "status" /\ streak \in 1..3) =>
           (failedRetrievals = streak /\ ArmedFor(RetryDelay))
    /\ (last.out = "status" /\ streak = 4) =>
           (failedRetrievals = 0 /\ ArmedFor(cfg.reloadInterval))

C1_Witness ==
    last.out = "status" /\ streak = 4 /\ failedRetrievals = 0 /\ timers # {}

\* C2: after every attempt that completes with status 200, whatever the body,
\* failedRetrievals is 0 and exactly one timer is armed, for reloadInterval.
C2_SuccessRearms ==
    (last.out \in {"ok", "nullbody", "parseerror"}) =>
        (failedRetrievals = 0 /\ ArmedFor(cfg.reloadInterval))

\* C3: with startFetch() called once, at most one request is in flight, and a
\* request is issued after the first only by the firing of the timer that
\* reloadTimer names, with no request in flight.
C3_SingleFlight ==
    [][starts' = 1 =>
          /\ requests' <= 1
          /\ (starts = 1 /\ requests' > requests) =>
                 /\ requests = 0
                 /\ \E t \in timers : t.id = reloadTimer /\ timers' = timers \ {t}
      ]_vars

C3_Witness ==
    starts = 1 /\ requests = 1 /\ last.out = "none" /\ failedRetrievals > 0

\* C4: whatever the interleaving of startFetch() calls, timer firings and
\* completions, at most one timer is pending and it is the one reloadTimer
\* names: no timer that was replaced is left to fire.
C4_OneTimer ==
    /\ Cardinality(timers) <= 1
    /\ \A t \in timers : t.id = reloadTimer

\* A timer armed by a callback that found an earlier timer pending.
C4_Witness ==
    starts = 2 /\ last.out \in {"ok", "status"} /\ reloadTimer = 2
        /\ Cardinality(timers) = 1

\* C5 (as stated): a 200 cycle whose filtered, sorted and truncated set is
\* empty leaves the held list as it was and does not call the listener; a
\* cycle whose set is not empty replaces the list and calls the listener.
C5_EmptyFilteredKeepsList ==
    [][last'.out = "ok" =>
          LET filtered == slice(sort(filterEvents(last'.parsed, clock,
                                                  cfg.maximumNumberOfDays)),
                                cfg.maximumEntries)
          IN  IF filtered = <<>>
              THEN events' = events /\ last'.notified = <<>>
              ELSE events' = translate(filtered)
                   /\ last'.notified = <<eventsReceivedCallback>>
      ]_vars

\* C5 (amended): a 200 cycle whose parsed feed holds no event (or whose body
\* the parser fails on) leaves the held list as it was and does not call the
\* listener; a cycle whose parsed feed holds an event replaces the list by the
\* filtered, sorted and truncated set, empty or not, and calls the listener.
C5_EmptyParseKeepsList ==
    [][last'.out \in {"ok", "nullbody", "parseerror"} =>
          LET filtered == slice(sort(filterEvents(last'.parsed, clock,
                                                  cfg.maximumNumberOfDays)),
                                cfg.maximumEntries)
          IN  IF last'.parsed = <<>>
              THEN events' = events /\ last'.notified = <<>>
              ELSE events' = translate(filtered)
                   /\ last'.notified = <<eventsReceivedCallback>>
      ]_vars

\* A cycle that parsed events, kept none, and published the empty list.
C5_Witness ==
    /\ last.out = "ok" /\ last.parsed # <<>> /\ FilteredOfLast = <<>>
    /\ cfg.maximumEntries > 0
    /\ events = <<>> /\ last.notified = <<eventsReceivedCallback>>

\* C6: an attempt that ends in a failed transport outcome (a status other than
\* 200, or no response) leaves the held list and the listeners as they were
\* and does not call the receive-listener.
C6_FailureKeepsList ==
    [][last'.out \in {"status", "error"} =>
          /\ events' = events
          /\ last'.notified = <<>>
          /\ UNCHANGED <<cfg, eventsReceivedCallback, fetchFailedCallback, starts, clock>>
      ]_vars

C6_Witness ==
    last.out = "status" /\ events # <<>> /\ failedRetrievals > 0 /\ timers # {}

\* C7: no event whose title is in excludedEvents is in the held list.
C7_NoExcludedEvent ==
    \A i \in 1..Len(events) : events[i].title \notin cfg.excludedEvents

\* C8: a completion with an error and no response is handled like a non-200
\* status: no exception leaves the callback and a timer is armed.
C8_TransportErrorHandled ==
    (last.out = "error") =>
        (~last.threw /\ \E t \in timers : t.id = reloadTimer)

\* C9: a 200 response whose body the parser fails on (null, or unparsable)
\* counts as a cycle without events: no exception leaves the callback, the
\* listener is not called, failedRetrievals is 0 and reloadInterval is armed.
C9_ParseFailureIsEmptyCycle ==
    (last.out \in {"nullbody", "parseerror"}) =>
        /\ ~last.threw
        /\ last.notified = <<>>
        /\ failedRetrievals = 0
        /\ ArmedFor(cfg.reloadInterval)

\* C10: once started, with every armed timer firing and every request
\* completing, an attempt is in flight again and again, whatever the outcomes
\* (stated for the time startFetch() has been called once and not again).
C10_CycleNeverStops == [](starts = 1 => <>(requests > 0 \/ starts > 1))

\* C11: the held list is never longer than maximumEntries.
C11_AtMostMaximumEntries == Len(events) <= cfg.maximumEntries

\* A cycle whose filtered events outnumbered maximumEntries and were cut to it.
C11_Witness ==
    /\ last.out = "ok"
    /\ Len(filterEvents(last.parsed, clock, cfg.maximumNumberOfDays))
           > cfg.maximumEntries
    /\ cfg.maximumEntries > 0
    /\ Len(events) = cfg.maximumEntries

\* The list is in non-decreasing order of startDate.
SortedByStart(evs) ==
    \A i, j \in 1..Len(evs) : i < j => evs[i].startDate <= evs[j].startDate

\* In F, element i goes before element j: it starts earlier, or starts at the
\* same instant and stands earlier in F.
GoesBefore(F, i, j) ==
    \/ F[i].startDate < F[j].startDate
    \/ F[i].startDate = F[j].startDate /\ i < j

\* evs holds the records of the n elements of F (all, if F has fewer) that go
\* before every other, in that order.
IsEarliestInStableOrder(evs, F, n) ==
    /\ Len(evs) = Min(Len(F), n)
    /\ \E idx \in [1..Len(evs) -> 1..Len(F)] :
           /\ \A k \in 1..Len(evs) : evs[k] = toEventRecord(F[idx[k]])
           /\ \A k, l \in 1..Len(evs) : k < l => GoesBefore(F, idx[k], idx[l])
           /\ \A j \in 1..Len(F) :
                  (\A k \in 1..Len(evs) : idx[k] # j) =>
                      \A k \in 1..Len(evs) : GoesBefore(F, idx[k], j)

Horizon(now, maximumNumberOfDays) ==
    (now \div MsPerDay) * MsPerDay + maximumNumberOfDays * MsPerDay - MsPerSecond

\* The vevent does not end before now and does not start after the horizon.
InWindow(vevent, now, maximumNumberOfDays) ==
    /\ vevent.endDate * MsPerSecond >= now
    /\ vevent.startDate * MsPerSecond <= Horizon(now, maximumNumberOfDays)

\* C13: the filter keeps a vevent exactly when its endDate is not before now and
\* its startDate is not after the horizon (both boundaries kept), in input
\* order, whatever else the Fetcher holds; so after a cycle that replaced the
\* list every held event is in the window, and every parsed vevent in the
\* window is held unless the list is full.
C13_WindowFilter ==
    (last.out = "ok" /\ last.parsed # <<>>) =>
        LET days == cfg.maximumNumberOfDays
            InW(v) == InWindow(v, clock, days)
        IN  /\ filterEvents(last.parsed, clock, days) = SelectSeq(last.parsed, InW)
            /\ \A i \in 1..Len(events) :
                   /\ events[i].endDate >= clock
                   /\ events[i].startDate <= Horizon(clock, days)
            /\ \A k \in 1..Len(last.parsed) :
                   InW(last.parsed[k]) =>
                       \/ Len(events) = cfg.maximumEntries
                       \/ \E i \in 1..Len(events) :
                              events[i] = toEventRecord(last.parsed[k])

\* The feed g, e at the instant e ends, one day of window: e (endDate = now) is
\* kept and g (one second past the horizon) is dropped.
C13_Witness ==
    /\ last.out = "ok" /\ last.parsed = <<vg, ve>>
    /\ cfg.maximumNumberOfDays = 1
    /\ toJSDate(ve.endDate) = clock
    /\ toJSDate(vg.startDate) = Horizon(clock, 1) + MsPerSecond
    /\ events = <<toEventRecord(ve)>>

\* C14 (as stated): a cycle calls, once, the listener of the most recent
\* onReceive() when it is a successful cycle that yields events (its filtered
\* set is not empty), and calls no listener otherwise.
C14_NotifiedIffEventsYielded ==
    (last.out # "none") =>
        last.notified =
            IF last.out = "ok" /\ FilteredOfLast # <<>>
            THEN <<lastRegistered>>
            ELSE <<>>

\* C14 (amended): a cycle calls, once, the listener of the most recent
\* onReceive() (the initial no-op when there was none) when it is a successful
\* cycle whose parsed sequence is not empty, and calls no listener otherwise.
C14_NotifiedIffEventsParsed ==
    (last.out # "none") =>
        last.notified =
            IF last.out = "ok" /\ last.parsed # <<>>
            THEN <<lastRegistered>>
            ELSE <<>>

\* The listener L1, the latest registered, called by a cycle that parsed events
\* and kept none.
C14_Witness ==
    /\ last.out = "ok" /\ last.notified = <<"L1">>
    /\ lastRegistered = "L1"
    /\ FilteredOfLast = <<>>

\* C15: a call of startFetch() after the first, whether a timer is pending or a
\* fetch is in flight, leaves what a single call leaves: no pending timer, no
\* timer handle held, and exactly one fetch in flight.
C15_StartFetchIdempotent ==
    [][(starts' = starts + 1 /\ starts >= 1) =>
           (timers' = {} /\ reloadTimer' = Null /\ requests' = 1)
      ]_vars

\* C16: counting from failedRetrievals = 0, the first, second and third
\* attempts ending in a status other than 200 each arm the 10 s retry, and a
\* fourth attempt ending in status 200 with one event arms reloadInterval and
\* leaves failedRetrievals at 0.
C16_ThreeFailuresThenSuccess ==
    /\ (last.out = "status" /\ last.run \in 0..2) => ArmedFor(RetryDelay)
    /\ (last.out = "ok" /\ last.run = 3 /\ Len(last.parsed) = 1) =>
           (failedRetrievals = 0 /\ ArmedFor(cfg.reloadInterval))

\* The fourth attempt of the scenario: three failures, then one event held.
C16_Witness ==
    /\ last.out = "ok" /\ last.run = 3
    /\ Len(last.parsed) = 1 /\ Len(events) = 1
    /\ failedRetrievals = 0 /\ ArmedFor(cfg.reloadInterval)

\* C17: failedRetrievals stays within 0..3, counts the failed attempts (a status
\* other than 200, or no response) handled in a row since the last success or
\* reset, and is 0 right after every attempt that retrieved the feed.
C17_CounterCountsFailures ==
    [][/\ failedRetrievals' \in 0..MaxFailedRetrievals
       /\ last'.out \in {"ok", "nullbody", "parseerror"} => failedRetrievals' = 0
       /\ last'.out \in {"status", "error"} =>
              failedRetrievals' = IF failedRetrievals < MaxFailedRetrievals
                                  THEN failedRetrievals + 1
                                  ELSE 0
      ]_vars

\* C18: the 10 s retry is never armed more than three times in a row.
C18_AtMostThreeShortRearms == shortRun <= MaxFailedRetrievals

\* C19: with startFetch() called once, no timer is pending while a request is
\* in flight, and no timer handle is held while a request is in flight.
C19_NoTimerWhileInFlight ==
    (starts = 1) =>
        /\ ~(timers # {} /\ requests > 0)
        /\ (requests > 0) => reloadTimer = Null

\* The other half of the cycle: the callback has armed the timer and nothing
\* is in flight.
C19_Witness ==
    /\ starts = 1 /\ last.out \in {"ok", "status"}
    /\ requests = 0 /\ ArmedFor(IF last.out = "ok" THEN cfg.reloadInterval
                                ELSE RetryDelay)

\* C20: no attempt, whatever its outcome, calls the error-listener.
C20_ErrorListenerNeverCalled == last.errored = <<>>

\* A listener is registered and the fourth failure in a row, the one that
\* finds the counter at its limit, has been handled without calling it.
C20_Witness ==
    /\ fetchFailedCallback = "E1"
    /\ last.out = "status" /\ last.run = 3 /\ failedRetrievals = 0
    /\ last.errored = <<>>

====
